---- MODULE Spec2Model ----
(***************************************************************************)
(* Model of hordak/models.py: the chart of accounts (an MPTT forest), the  *)
(* ledger of Transactions and Legs, balance computation, and statement     *)
(* reconciliation.  Amounts are integers (a Money amount counted in its    *)
(* smallest unit); dates are the integers 1..MaxDate.                      *)
(***************************************************************************)
EXTENDS Integers, Sequences, FiniteSets, TLC

\* ------------------------------------------------------------- bounds ----
MaxTx == 2          \* rows the Transaction table may hold
MaxAmount == 1      \* amounts range over -MaxAmount..MaxAmount
MaxDate == 2        \* dates range over 1..MaxDate
MaxLines == 1       \* rows the StatementLine table may hold

Accounts == {1, 2, 3}
Amounts == (-MaxAmount)..MaxAmount
Dates == 1..MaxDate

\* Python's None: a null foreign key, an unset as_of.
None == 0

\* Account.TYPES, by their database values.
TYPES == {"AS", "LI", "IN", "EX", "EQ"}
DEBIT == "debit"
CREDIT == "credit"

\* The exceptions the handlers raise; NoError is a normal return.
NoError == "ok"
ZeroAmountError == "ZeroAmountError"
AccountTypeOnChildNode == "AccountTypeOnChildNode"
StoreError == "StoreError"
AccountingEquationViolationError == "AccountingEquationViolationError"

VARIABLES
    parent,        \* Account.parent: account -> account or None
    _type,         \* Account._type: the stored type of each account
    code,          \* Account.code: the code of each account
    transactions,  \* the Transaction table: row k is the transaction with pk k
    legs,          \* the Leg table
    imports,       \* the StatementImport table: row k holds bank_account
    lines,         \* the StatementLine table, as persisted
    lineObj,       \* the caller's StatementLine instances: their transaction attribute
    txn,           \* the atomic block a connection has open, statement by statement
    last           \* the most recent call: what was called, with what, and how it ended

vars == <<parent, _type, code, transactions, legs, imports, lines, lineObj, txn, last>>

\* ------------------------------------------------------------ helpers ----
RECURSIVE SetSum(_, _)
SetSum(f, S) ==
    IF S = {} THEN 0
    ELSE LET x == CHOOSE y \in S : TRUE IN f[x] + SetSum(f, S \ {x})

\* ------------------------------------------------------- account tree ----
is_root_node(a) == parent[a] = None

RECURSIVE get_root(_)
get_root(a) == IF parent[a] = None THEN a ELSE get_root(parent[a])

RECURSIVE get_ancestors(_, _)
get_ancestors(a, include_self) ==
    (IF include_self THEN {a} ELSE {})
        \cup (IF parent[a] = None THEN {} ELSE get_ancestors(parent[a], TRUE))

\* get_descendants that stops at the children.
get_descendantsChildrenOnly(a, include_self) ==
    {b \in Accounts : (include_self /\ b = a) \/ parent[b] = a}

get_descendants(a, include_self) ==
    {b \in Accounts : a \in get_ancestors(b, include_self)}

root_nodes == {a \in Accounts : parent[a] = None}

\* The getter reading the parent's stored type instead of the root's.
typeOfParent(a) == IF is_root_node(a) THEN _type[a] ELSE _type[parent[a]]

\* Account.type (getter)
type(a) == IF is_root_node(a) THEN _type[a] ELSE _type[get_root(a)]

\* Account.code is a CharField(max_length=3), not blank: the codes of one to
\* three characters, over two characters.
CodeChars == {"1", "2"}
Codes ==
    CodeChars \cup {x \o y : x, y \in CodeChars}
              \cup {x \o y \o z : x, y, z \in CodeChars}

\* full_code joining the codes of the ancestors without the account's own.
RECURSIVE JoinCodes(_, _, _)
full_codeWithoutSelf(a) ==
    IF a = None THEN None
    ELSE LET path == get_ancestors(a, FALSE)
         IN  JoinCodes(path, 0, Cardinality(path))

\* ''.join(account.code for account in path): path is a set of accounts on one
\* branch, taken in tree order (the one with k ancestors is the k-th), from
\* position k up to n.
JoinCodes(path, k, n) ==
    IF k >= n THEN ""
    ELSE LET account == CHOOSE b \in path : Cardinality(get_ancestors(b, FALSE)) = k
         IN  code[account] \o JoinCodes(path, k + 1, n)

\* Account.full_code: None without a pk; every account of the model is saved
\* and a is its pk.
full_code(a) ==
    IF a = None THEN None
    ELSE LET path == get_ancestors(a, TRUE)
         IN  JoinCodes(path, 0, Cardinality(path))

\* sign negative for asset accounts only.
signAssetOnly(a) == IF type(a) \in {"AS"} THEN -1 ELSE 1

\* Account.sign
sign(a) == IF type(a) \in {"AS", "EX"} THEN -1 ELSE 1

\* -------------------------------------------------------------- ledger ----
\* The persisted tables an atomic block reads and writes.
Db == [transactions |-> transactions, legs |-> legs, lines |-> lines]

\* timezone.now, the default of Transaction.date: no date is later than today.
timezone_now == MaxDate

\* Transaction.objects.create(date=...): a new row with the next pk.
TransactionCreate(db, date) ==
    [db EXCEPT !.transactions = Append(@, [date |-> date])]

\* Leg.save, reached through Leg.objects.create: refuses a zero amount.
LegSave(db, tx, account, amount) ==
    IF amount = 0
    THEN [error |-> ZeroAmountError, db |-> db]
    ELSE [error |-> NoError,
          db |-> [db EXCEPT !.legs =
                    Append(@, [transaction |-> tx, account |-> account, amount |-> amount])]]

\* atomic without the rollback: what the block wrote before raising stays.
atomicNoRollback(before, run) == run.db

\* atomic whose rollback undoes the legs and leaves the Transaction row.
atomicKeepsTransaction(before, run) ==
    IF run.error = NoError THEN run.db
    ELSE [before EXCEPT !.transactions = run.db.transactions]

\* db_transaction.atomic(): commit what the block wrote, or on an exception nothing.
atomic(before, run) == IF run.error = NoError THEN run.db ELSE before

\* transfer_to with the second leg given the first leg's amount.
TransferBodySameAmount(db, self, to_account, amount) ==
    LET direction == IF sign(to_account) = 1 THEN -1 ELSE 1
        d0 == TransactionCreate(db, timezone_now)
        tx == Len(d0.transactions)
        r1 == LegSave(d0, tx, self, amount * direction)
        r2 == LegSave(r1.db, tx, to_account, amount * direction)
    IN  IF r1.error # NoError THEN [error |-> r1.error, db |-> r1.db, tx |-> tx]
        ELSE [error |-> r2.error, db |-> r2.db, tx |-> tx]

\* transfer_to with the test on to_account.sign inverted.
TransferBodyFlipped(db, self, to_account, amount) ==
    LET direction == IF sign(to_account) = 1 THEN 1 ELSE -1
        d0 == TransactionCreate(db, timezone_now)
        tx == Len(d0.transactions)
        r1 == LegSave(d0, tx, self, amount * direction)
        r2 == LegSave(r1.db, tx, to_account, (-amount) * direction)
    IN  IF r1.error # NoError THEN [error |-> r1.error, db |-> r1.db, tx |-> tx]
        ELSE [error |-> r2.error, db |-> r2.db, tx |-> tx]

\* The body of Account.transfer_to, run against db.
TransferBody(db, self, to_account, amount) ==
    LET direction == IF sign(to_account) = 1 THEN -1 ELSE 1
        d0 == TransactionCreate(db, timezone_now)
        tx == Len(d0.transactions)
        r1 == LegSave(d0, tx, self, amount * direction)
        r2 == LegSave(r1.db, tx, to_account, (-amount) * direction)
    IN  IF r1.error # NoError THEN [error |-> r1.error, db |-> r1.db, tx |-> tx]
        ELSE [error |-> r2.error, db |-> r2.db, tx |-> tx]

\* create_transaction without "transaction.date = self.date".
CreateTransactionBodyNoDate(db, i, to_account, fail) ==
    LET self == db.lines[i]
        from_account == imports[self.statement_import]
        d0 == TransactionCreate(db, timezone_now)
        tx == Len(d0.transactions)
        r1 == LegSave(d0, tx, from_account, self.amount * (-1))
        r2 == LegSave(r1.db, tx, to_account, -(self.amount * (-1)))
        d4 == [r2.db EXCEPT !.lines[i].transaction = tx]
        raise(e, step, d, assigned) ==
            [error |-> e, step |-> step, db |-> d, tx |-> tx, assigned |-> assigned]
    IN  IF fail = "transaction_create" THEN raise(StoreError, fail, db, FALSE)
        ELSE IF fail = "leg1" THEN raise(StoreError, fail, d0, FALSE)
        ELSE IF r1.error # NoError THEN raise(r1.error, "leg1", r1.db, FALSE)
        ELSE IF fail = "leg2" THEN raise(StoreError, fail, r1.db, FALSE)
        ELSE IF r2.error # NoError THEN raise(r2.error, "leg2", r2.db, FALSE)
        ELSE IF fail = "transaction_save" THEN raise(StoreError, fail, r2.db, FALSE)
        ELSE IF fail = "line_save" THEN raise(StoreError, fail, r2.db, TRUE)
        ELSE raise(NoError, "none", d4, TRUE)

\* create_transaction with the two leg amounts exchanged.
CreateTransactionBodySwapped(db, i, to_account, fail) ==
    LET self == db.lines[i]
        from_account == imports[self.statement_import]
        d0 == TransactionCreate(db, timezone_now)
        tx == Len(d0.transactions)
        r1 == LegSave(d0, tx, from_account, -(self.amount * (-1)))
        r2 == LegSave(r1.db, tx, to_account, self.amount * (-1))
        d3 == [r2.db EXCEPT !.transactions[tx].date = self.date]
        d4 == [d3 EXCEPT !.lines[i].transaction = tx]
        raise(e, step, d, assigned) ==
            [error |-> e, step |-> step, db |-> d, tx |-> tx, assigned |-> assigned]
    IN  IF fail = "transaction_create" THEN raise(StoreError, fail, db, FALSE)
        ELSE IF fail = "leg1" THEN raise(StoreError, fail, d0, FALSE)
        ELSE IF r1.error # NoError THEN raise(r1.error, "leg1", r1.db, FALSE)
        ELSE IF fail = "leg2" THEN raise(StoreError, fail, r1.db, FALSE)
        ELSE IF r2.error # NoError THEN raise(r2.error, "leg2", r2.db, FALSE)
        ELSE IF fail = "transaction_save" THEN raise(StoreError, fail, r2.db, FALSE)
        ELSE IF fail = "line_save" THEN raise(StoreError, fail, d3, TRUE)
        ELSE raise(NoError, "none", d4, TRUE)

\* The body of StatementLine.create_transaction for line i, run against db.
\* fail names the statement at which the store fails, if any.
FailPoints == {"none", "transaction_create", "leg1", "leg2", "transaction_save", "line_save"}

CreateTransactionBody(db, i, to_account, fail) ==
    LET self == db.lines[i]
        from_account == imports[self.statement_import]
        d0 == TransactionCreate(db, timezone_now)
        tx == Len(d0.transactions)
        r1 == LegSave(d0, tx, from_account, self.amount * (-1))
        r2 == LegSave(r1.db, tx, to_account, -(self.amount * (-1)))
        d3 == [r2.db EXCEPT !.transactions[tx].date = self.date]
        d4 == [d3 EXCEPT !.lines[i].transaction = tx]
        raise(e, step, d, assigned) ==
            [error |-> e, step |-> step, db |-> d, tx |-> tx, assigned |-> assigned]
    IN  IF fail = "transaction_create" THEN raise(StoreError, fail, db, FALSE)
        ELSE IF fail = "leg1" THEN raise(StoreError, fail, d0, FALSE)
        ELSE IF r1.error # NoError THEN raise(r1.error, "leg1", r1.db, FALSE)
        ELSE IF fail = "leg2" THEN raise(StoreError, fail, r1.db, FALSE)
        ELSE IF r2.error # NoError THEN raise(r2.error, "leg2", r2.db, FALSE)
        ELSE IF fail = "transaction_save" THEN raise(StoreError, fail, r2.db, FALSE)
        ELSE IF fail = "line_save" THEN raise(StoreError, fail, d3, TRUE)
        ELSE raise(NoError, "none", d4, TRUE)

\* An open block whose every statement is committed at once (no atomic).
atomicInBlockAutocommit(committed, work) == work

\* db_transaction.atomic(), while the block is open: the rows every other
\* connection reads are the committed ones, not the ones the block has written.
atomicInBlock(committed, work) == committed

\* The statements of Account.transfer_to, one at a time: statement pc, run
\* against the rows the block sees.
TransferStatement(work, pc, self, to_account, amount) ==
    LET direction == IF sign(to_account) = 1 THEN -1 ELSE 1
        tx == Len(work.transactions)
    IN  IF pc = 1 THEN [error |-> NoError, db |-> TransactionCreate(work, timezone_now)]
        ELSE IF pc = 2 THEN LegSave(work, tx, self, amount * direction)
        ELSE LegSave(work, tx, to_account, (-amount) * direction)

\* The statements of StatementLine.create_transaction, one at a time.
CreateTransactionStatement(work, pc, i, to_account) ==
    LET self == work.lines[i]
        from_account == imports[self.statement_import]
        tx == Len(work.transactions)
    IN  IF pc = 1 THEN [error |-> NoError, db |-> TransactionCreate(work, timezone_now)]
        ELSE IF pc = 2 THEN LegSave(work, tx, from_account, self.amount * (-1))
        ELSE IF pc = 3 THEN LegSave(work, tx, to_account, -(self.amount * (-1)))
        ELSE IF pc = 4
        THEN [error |-> NoError, db |-> [work EXCEPT !.transactions[tx].date = self.date]]
        ELSE [error |-> NoError, db |-> [work EXCEPT !.lines[i].transaction = tx]]

\* The number of statements in each block.
LastStatement(op) == IF op = "transfer_to" THEN 3 ELSE 5

\* ------------------------------------------------------------ balances ----
\* account.legs and transaction.legs: the related managers, as sets of Leg pks.
AccountLegs(a) == {i \in 1..Len(legs) : legs[i].account = a}
TransactionLegs(t) == {i \in 1..Len(legs) : legs[i].transaction = t}

\* The filter with "lt" for "lte".
FilterDateLt(S, as_of) == {i \in S : transactions[legs[i].transaction].date < as_of}

\* legs.filter(transaction__date__lte=as_of)
FilterDateLte(S, as_of) == {i \in S : transactions[legs[i].transaction].date <= as_of}

\* LegQuerySet.sum_amount: Sum('amount') is None over no rows, hence "or 0".
sum_amount(S) == IF S = {} THEN 0 ELSE SetSum([i \in S |-> legs[i].amount], S)

\* Account.simple_balance (without the extra keyword filters)
simple_balance(a, as_of, raw) ==
    LET all == AccountLegs(a)
        kept == IF as_of # None THEN FilterDateLte(all, as_of) ELSE all
    IN  sum_amount(kept) * (IF raw THEN 1 ELSE sign(a))

\* Account.balance
balance(a, as_of, raw) ==
    LET subtree == get_descendants(a, TRUE)
    IN  SetSum([b \in subtree |-> simple_balance(b, as_of, raw)], subtree)

\* What the ORM makes of legs.filter(transaction__date__lte=True), a date compared
\* with a boolean: it raises, or it compares as with some date.
LteTrueOutcomes ==
    {[raises |-> TRUE, date |-> None]} \cup {[raises |-> FALSE, date |-> D] : D \in Dates}

\* account.balance(arg), the argument given by position: it binds as_of, and raw
\* keeps its default False.  "if as_of:" lets False through as no date at all
\* and sends True to the date filter, where the ORM does lte_true.
balancePositional(a, arg, lte_true) ==
    IF ~arg THEN [error |-> NoError, value |-> balance(a, None, FALSE)]
    ELSE IF lte_true.raises THEN [error |-> "TypeError", value |-> 0]
    ELSE [error |-> NoError, value |-> balance(a, lte_true.date, FALSE)]

\* AccountQuerySet.net_balance(raw), over the accounts S of the queryset:
\* sum(account.balance(raw) for account in self).
net_balance(S, raw, lte_true) ==
    IF \E a \in S : balancePositional(a, raw, lte_true).error # NoError
    THEN [error |-> "TypeError", value |-> 0]
    ELSE [error |-> NoError,
          value |-> SetSum([a \in S |-> balancePositional(a, raw, lte_true).value], S)]

\* Transaction.balance
TransactionBalance(t) == sum_amount(TransactionLegs(t))

\* The validator adding up the displayed balances (raw left at its default).
validate_accounting_equationDisplayed ==
    SetSum([a \in root_nodes |-> balance(a, None, FALSE)], root_nodes) # 0

\* Account.validate_accounting_equation: TRUE when it raises.
validate_accounting_equation ==
    SetSum([a \in root_nodes |-> balance(a, None, TRUE)], root_nodes) # 0

\* Leg.type
LegType(amount) ==
    IF amount < 0 THEN DEBIT
    ELSE IF amount > 0 THEN CREDIT
    ELSE ZeroAmountError

\* StatementLine.is_reconciled, on the caller's instance of line i
is_reconciled(i) == lineObj[i] # None

\* ------------------------------------------------------------ actions ----
Call(op, self, to, amount, result, tx, value) ==
    [op |-> op, self |-> self, to |-> to, amount |-> amount,
     result |-> result, tx |-> tx, value |-> value]

\* No atomic block is open.
NoBlock ==
    [op |-> "", self |-> None, to |-> None, amount |-> 0, pc |-> 0,
     work |-> [transactions |-> <<>>, legs |-> <<>>, lines |-> <<>>]]

\* Account.transfer_to(to_account, amount), with no transaction_kwargs
transfer_to(self, to_account, amount) ==
    /\ Len(transactions) < MaxTx
    /\ LET run == TransferBody(Db, self, to_account, amount)
           db == atomic(Db, run)
       IN  /\ transactions' = db.transactions
           /\ legs' = db.legs
           /\ lines' = db.lines
           /\ last' = IF run.error = NoError
                      THEN Call("transfer_to", self, to_account, amount, NoError, run.tx, "")
                      ELSE Call("transfer_to", None, None, amount, run.error, None, "")
    /\ UNCHANGED <<parent, code, _type, imports, lineObj, txn>>

\* StatementLine.create_transaction(to_account) on the caller's instance of line i
create_transaction(i, to_account, fail) ==
    /\ i \in 1..Len(lines)
    /\ Len(transactions) < MaxTx
    /\ LET run == CreateTransactionBody(Db, i, to_account, fail)
           db == atomic(Db, run)
       IN  /\ transactions' = db.transactions
           /\ legs' = db.legs
           /\ lines' = db.lines
           /\ lineObj' = IF run.assigned THEN [lineObj EXCEPT ![i] = run.tx] ELSE lineObj
           /\ last' = IF run.error = NoError
                      THEN Call("create_transaction", i, to_account, lines[i].amount,
                                NoError, run.tx, "")
                      ELSE Call("create_transaction", i, None, lines[i].amount,
                                run.error, None, "")
    /\ UNCHANGED <<parent, code, _type, imports, txn>>

\* StatementImport.objects.create(bank_account=...)
CreateStatementImport(bank_account) ==
    /\ txn.pc = 0
    /\ Len(imports) < MaxLines
    /\ imports' = Append(imports, bank_account)
    /\ last' = Call("StatementImport", None, None, 0, NoError, None, "")
    /\ UNCHANGED <<parent, code, _type, transactions, legs, lines, lineObj, txn>>

\* Creating a statement line that also posts its amount to the bank account.
CreateStatementLinePosting(statement_import, amount, date) ==
    /\ txn.pc = 0
    /\ Len(lines) < MaxLines
    /\ Len(transactions) < MaxTx
    /\ statement_import \in 1..Len(imports)
    /\ lines' = Append(lines, [statement_import |-> statement_import, amount |-> amount,
                               date |-> date, transaction |-> None])
    /\ lineObj' = Append(lineObj, None)
    /\ transactions' = Append(transactions, [date |-> date])
    /\ legs' = Append(legs, [transaction |-> Len(transactions) + 1,
                             account |-> imports[statement_import], amount |-> amount])
    /\ last' = Call("StatementLine", None, None, 0, NoError, None, "")
    /\ UNCHANGED <<parent, code, _type, imports, txn>>

\* StatementLine.objects.create(statement_import=..., amount=..., date=...)
CreateStatementLine(statement_import, amount, date) ==
    /\ txn.pc = 0
    /\ Len(lines) < MaxLines
    /\ statement_import \in 1..Len(imports)
    /\ lines' = Append(lines, [statement_import |-> statement_import, amount |-> amount,
                               date |-> date, transaction |-> None])
    /\ lineObj' = Append(lineObj, None)
    /\ last' = Call("StatementLine", None, None, 0, NoError, None, "")
    /\ UNCHANGED <<parent, code, _type, transactions, legs, imports, txn>>

\* Account.type = value (the setter)
set_type(a, value) ==
    /\ IF is_root_node(a)
       THEN /\ _type' = [_type EXCEPT ![a] = value]
            /\ last' = Call("set_type", a, None, 0, NoError, None, value)
       ELSE /\ _type' = _type
            /\ last' = Call("set_type", a, None, 0, AccountTypeOnChildNode, None, value)
    /\ UNCHANGED <<parent, code, transactions, legs, imports, lines, lineObj, txn>>

\* Account.validate_accounting_equation(), called on the class
ValidateAccountingEquation ==
    /\ last' = Call("validate_accounting_equation", None, None, 0,
                    IF validate_accounting_equation
                    THEN AccountingEquationViolationError ELSE NoError,
                    None, "")
    /\ UNCHANGED <<parent, code, _type, transactions, legs, imports, lines, lineObj, txn>>

\* Transaction.objects.create(), called by itself
TransactionObjectsCreate ==
    /\ Len(transactions) < MaxTx
    /\ transactions' = TransactionCreate(Db, timezone_now).transactions
    /\ last' = Call("Transaction", None, None, 0, NoError, Len(transactions) + 1, "")
    /\ UNCHANGED <<parent, code, _type, legs, imports, lines, lineObj, txn>>

\* Leg.objects.create(transaction=..., account=..., amount=...), called by itself
LegObjectsCreate(tx, account, amount) ==
    /\ Len(legs) < MaxTx
    /\ tx \in 1..Len(transactions)
    /\ LET run == LegSave(Db, tx, account, amount)
       IN  /\ legs' = run.db.legs
           /\ last' = Call("Leg", account, None, amount, run.error, tx, "")
    /\ UNCHANGED <<parent, code, _type, transactions, imports, lines, lineObj, txn>>

\* The record of a call that has not returned yet.
Running == Call("", None, None, 0, "running", None, "")

\* Account.transfer_to entering its atomic block
BeginTransfer(self, to_account, amount) ==
    /\ txn.pc = 0
    /\ Len(transactions) < MaxTx
    /\ txn' = [op |-> "transfer_to", self |-> self, to |-> to_account,
               amount |-> amount, pc |-> 1, work |-> Db]
    /\ last' = Running
    /\ UNCHANGED <<parent, code, _type, transactions, legs, imports, lines, lineObj>>

\* StatementLine.create_transaction entering its atomic block
BeginCreateTransaction(i, to_account) ==
    /\ txn.pc = 0
    /\ i \in 1..Len(lines)
    /\ Len(transactions) < MaxTx
    /\ txn' = [op |-> "create_transaction", self |-> i, to |-> to_account,
               amount |-> lines[i].amount, pc |-> 1, work |-> Db]
    /\ last' = Running
    /\ UNCHANGED <<parent, code, _type, transactions, legs, imports, lines, lineObj>>

\* The open block runs its next statement; an exception leaves the block, which
\* rolls back.
Statement ==
    /\ txn.pc \in 1..LastStatement(txn.op)
    /\ LET run == IF txn.op = "transfer_to"
                  THEN TransferStatement(txn.work, txn.pc, txn.self, txn.to, txn.amount)
                  ELSE CreateTransactionStatement(txn.work, txn.pc, txn.self, txn.to)
           failed == run.error # NoError
           db == IF failed THEN atomic(Db, run) ELSE atomicInBlock(Db, run.db)
       IN  /\ txn' = IF failed THEN NoBlock ELSE [txn EXCEPT !.pc = @ + 1, !.work = run.db]
           /\ transactions' = db.transactions
           /\ legs' = db.legs
           /\ lines' = db.lines
           /\ lineObj' = IF txn.op = "create_transaction" /\ txn.pc = 5
                         THEN [lineObj EXCEPT ![txn.self] = Len(txn.work.transactions)]
                         ELSE lineObj
           /\ last' = IF failed
                      THEN Call(txn.op, None, None, 0, run.error, None, "")
                      ELSE Running
    /\ UNCHANGED <<parent, code, _type, imports>>

\* The open block ends normally: what it wrote is committed.
Commit ==
    /\ txn.pc = LastStatement(txn.op) + 1
    /\ LET db == atomic(Db, [error |-> NoError, db |-> txn.work])
       IN  /\ transactions' = db.transactions
           /\ legs' = db.legs
           /\ lines' = db.lines
    /\ txn' = NoBlock
    /\ last' = Call(txn.op, None, None, 0, NoError, Len(txn.work.transactions), "")
    /\ UNCHANGED <<parent, code, _type, imports, lineObj>>

\* Another connection reads the ledger: the number of Transactions it finds and
\* the sum of the raw balances of the roots.  The record keeps, in self, the
\* statement the open block had reached when the read ran.
ReadBalances ==
    /\ last' = Call("read", txn.pc, None,
                    SetSum([a \in root_nodes |-> balance(a, None, TRUE)], root_nodes),
                    NoError, Len(transactions), "")
    /\ UNCHANGED <<parent, code, _type, transactions, legs, imports, lines, lineObj, txn>>

\* Reading account.full_code
ReadFullCode(a) ==
    /\ last' = Call("full_code", a, None, 0, NoError, None, full_code(a))
    /\ UNCHANGED <<parent, _type, code, transactions, legs, imports, lines, lineObj, txn>>

\* account.code = value; account.save()
set_code(a, value) ==
    /\ code' = [code EXCEPT ![a] = value]
    /\ last' = Call("set_code", a, None, 0, NoError, None, value)
    /\ UNCHANGED <<parent, _type, transactions, legs, imports, lines, lineObj, txn>>

\* ------------------------------------------------------ specifications ----
\* The forests in which each account is a root or a child of the account created
\* just before it: one to three roots, depth one to three.
Forests ==
    {p \in [Accounts -> Accounts \cup {None}] : \A a \in Accounts : p[a] \in {None, a - 1}}

NoCall == Call("", None, None, 0, NoError, None, "")

EmptyStore ==
    /\ transactions = <<>>
    /\ legs = <<>>
    /\ imports = <<>>
    /\ lines = <<>>
    /\ lineObj = <<>>
    /\ txn = NoBlock
    /\ last = NoCall

\* The types the accounts are created with, when created as roots: the two
\* assignments use every type between them and give each account both signs.
TypeChoices ==
    {<<"AS", "IN", "EX">>, <<"LI", "EX", "EQ">>}

\* The codes the accounts of the ledger are created with.
InitialCodes == <<"1", "2", "11">>

\* The ledger: accounts exist, roots are typed, children have the blank default.
Init ==
    /\ parent \in Forests
    /\ code = InitialCodes
    /\ \E t \in TypeChoices :
          _type = [a \in Accounts |-> IF parent[a] = None THEN t[a] ELSE ""]
    /\ EmptyStore

Next ==
    \/ \E self \in Accounts, to_account \in Accounts, amount \in Amounts :
          transfer_to(self, to_account, amount)
    \/ \E i \in 1..MaxLines, to_account \in Accounts, fail \in FailPoints :
          create_transaction(i, to_account, fail)
    \/ \E bank_account \in Accounts : CreateStatementImport(bank_account)
    \/ \E s \in 1..MaxLines, amount \in Amounts, date \in Dates :
          CreateStatementLine(s, amount, date)

Spec == Init /\ [][Next]_vars

\* The account tree alone: any stored types, and the type setter.
InitTree ==
    /\ parent \in Forests
    /\ code = InitialCodes
    /\ _type \in [Accounts -> TYPES \cup {""}]
    /\ EmptyStore

NextTree == \E a \in Accounts, value \in TYPES : set_type(a, value)

SpecTree == InitTree /\ [][NextTree]_vars

\* The tables written row by row, as the ORM allows, and the validator run over
\* whatever they hold: ledgers that balance and ledgers that do not.
NextRows ==
    \/ TransactionObjectsCreate
    \/ \E tx \in 1..MaxTx, account \in Accounts, amount \in Amounts :
          LegObjectsCreate(tx, account, amount)
    \/ ValidateAccountingEquation

SpecRows == Init /\ [][NextRows]_vars

\* The two writers run statement by statement, with a reader that may run
\* between any two statements.  Rows are written by one connection at a time
\* (txn.pc = 0 where a write starts); reads are never held back.
NextBlocks ==
    \/ \E self \in Accounts, to_account \in Accounts, amount \in Amounts :
          BeginTransfer(self, to_account, amount)
    \/ \E i \in 1..MaxLines, to_account \in Accounts : BeginCreateTransaction(i, to_account)
    \/ Statement
    \/ Commit
    \/ ReadBalances
    \/ \E bank_account \in Accounts : CreateStatementImport(bank_account)
    \/ \E s \in 1..MaxLines, amount \in Amounts, date \in Dates :
          CreateStatementLine(s, amount, date)

SpecBlocks == Init /\ [][NextBlocks]_vars

\* The chart of accounts alone: every forest, the codes changed at will, and
\* full_code read.
InitCodes ==
    /\ parent \in Forests
    /\ _type = [a \in Accounts |-> ""]
    /\ code = InitialCodes
    /\ EmptyStore

NextCodes ==
    \/ \E a \in Accounts, value \in Codes : set_code(a, value)
    \/ \E a \in Accounts : ReadFullCode(a)

SpecCodes == InitCodes /\ [][NextCodes]_vars

\* ------------------------------------------------------------- claims ----
\* The Leg rows of transaction t, as a set of (account, amount) records.
LegsOfTransaction(t) ==
    {[account |-> legs[i].account, amount |-> legs[i].amount] : i \in TransactionLegs(t)}

\* C1: in every committed state the Legs of every Transaction (each was created
\* by transfer_to or by create_transaction) sum to exactly 0.
C1_ZeroSum ==
    \A t \in 1..Len(transactions) : TransactionBalance(t) = 0

C1_Witness ==
    /\ Len(transactions) = 2
    /\ last.op = "create_transaction" /\ last.result = NoError
    /\ \E i, j \in TransactionLegs(1) : i # j /\ legs[i].account = legs[j].account

\* C2: after any sequence of transfer_to and create_transaction calls, over every
\* forest and every assignment of types, the raw balances of the root accounts
\* sum to 0, so validate_accounting_equation does not raise.
C2_AccountingEquation ==
    /\ SetSum([a \in root_nodes |-> balance(a, None, TRUE)], root_nodes) = 0
    /\ ~validate_accounting_equation

C2_Witness ==
    /\ Len(transactions) = 2
    /\ Cardinality(root_nodes) = 2
    /\ \E a \in root_nodes : balance(a, None, TRUE) # 0
    /\ \E i \in 1..Len(legs) : parent[legs[i].account] # None

\* C3: creating a Leg with amount 0 fails with ZeroAmountError and persists
\* nothing: a call that ends in ZeroAmountError leaves the Transaction, Leg and
\* StatementLine tables as they were, transfer_to with amount 0 always ends so,
\* and no persisted Leg has amount 0.
C3_ZeroAmountPersistsNothing ==
    [][ /\ (last'.op = "transfer_to" /\ last'.amount = 0) => last'.result = ZeroAmountError
        /\ (last'.op = "create_transaction" /\ last'.amount = 0) => last'.result # NoError
        /\ last'.result = ZeroAmountError =>
              /\ transactions' = transactions
              /\ legs' = legs
              /\ lines' = lines
        /\ \A i \in 1..Len(legs') : legs'[i].amount # 0 ]_vars

C3_Witness ==
    /\ last.op = "transfer_to"
    /\ last.amount = 0
    /\ last.result = ZeroAmountError
    /\ Len(transactions) = 1
    /\ Len(legs) = 2

\* C4: create_transaction on a line that is already reconciled fails with
\* AlreadyReconciledError (the store itself not failing): it creates no
\* Transaction and no Leg, and the line keeps the transaction of the first call
\* (so every balance is what it was).
C4_SecondCallFails ==
    [][ (/\ last'.op = "create_transaction"
         /\ last'.result # StoreError
         /\ lines[last'.self].transaction # None
         /\ is_reconciled(last'.self))
        => (/\ last'.result = "AlreadyReconciledError"
            /\ transactions' = transactions
            /\ legs' = legs
            /\ lines' = lines
            /\ lineObj' = lineObj) ]_vars

\* C5: create_transaction is all-or-nothing: when a call on an unreconciled line
\* fails at any step, the line is still not reconciled afterwards and no
\* Transaction or Leg of the call is persisted.
C5_AllOrNothing ==
    [][ (/\ last'.op = "create_transaction"
         /\ last'.result # NoError
         /\ ~is_reconciled(last'.self))
        => (/\ lineObj'[last'.self] = None
            /\ lines'[last'.self].transaction = None
            /\ transactions' = transactions
            /\ legs' = legs) ]_vars

\* C6: a successful transfer_to creates exactly two legs, decided by
\* to_account.sign alone: (from, -amount), (to, +amount) when the sign is +1 and
\* (from, +amount), (to, -amount) when it is -1.
C6_TransferDirection ==
    (last.op = "transfer_to" /\ last.result = NoError) =>
        /\ Cardinality(TransactionLegs(last.tx)) = 2
        /\ TransactionLegs(last.tx) = {Len(legs) - 1, Len(legs)}
        /\ LegsOfTransaction(last.tx) =
              IF sign(last.to) = 1
              THEN {[account |-> last.self, amount |-> -last.amount],
                    [account |-> last.to, amount |-> last.amount]}
              ELSE {[account |-> last.self, amount |-> last.amount],
                    [account |-> last.to, amount |-> -last.amount]}

C6_Witness ==
    /\ last.op = "transfer_to" /\ last.result = NoError
    /\ sign(last.to) = 1
    /\ sign(last.self) = -1
    /\ last.amount = -1
    /\ Len(transactions) = 2

\* C7: a successful create_transaction(to_account) on a line with amount a and
\* date d creates one Transaction dated d with exactly the legs (bank_account, -a)
\* and (to_account, +a); the line is then reconciled to that Transaction.
C7_Reconcile ==
    (last.op = "create_transaction" /\ last.result = NoError) =>
        LET line == lines[last.self]
            bank_account == imports[line.statement_import]
        IN  /\ last.tx = Len(transactions)
            /\ transactions[last.tx].date = line.date
            /\ Cardinality(TransactionLegs(last.tx)) = 2
            /\ LegsOfTransaction(last.tx) =
                  {[account |-> bank_account, amount |-> -line.amount],
                   [account |-> last.to, amount |-> line.amount]}
            /\ is_reconciled(last.self)
            /\ lineObj[last.self] = last.tx
            /\ line.transaction = last.tx

C7_Witness ==
    /\ last.op = "create_transaction" /\ last.result = NoError
    /\ lines[last.self].amount = -1
    /\ lines[last.self].date = 1
    /\ imports[lines[last.self].statement_import] # last.to
    /\ [account |-> last.to, amount |-> -1] \in LegsOfTransaction(last.tx)

\* The root ancestor of a, found by walking the parent links.
RECURSIVE RootAncestor(_)
RootAncestor(a) == IF parent[a] = None THEN a ELSE RootAncestor(parent[a])

\* C8: the effective type of an account with a parent, at any depth, is the
\* stored type of its root ancestor; assigning type on it raises and changes no
\* stored type (so no effective type); assigning type on a root succeeds.
C8_TypeInheritance ==
    /\ [](\A a \in Accounts : parent[a] # None => type(a) = _type[RootAncestor(a)])
    /\ [][ \A a \in Accounts : (last'.op = "set_type" /\ last'.self = a) =>
             IF parent[a] # None
             THEN /\ last'.result = AccountTypeOnChildNode
                  /\ _type' = _type
                  /\ \A b \in Accounts : type(b)' = type(b)
             ELSE /\ last'.result = NoError
                  /\ _type' = [_type EXCEPT ![a] = last'.value]
                  /\ type(a)' = last'.value ]_vars

C8_Witness ==
    /\ last.op = "set_type"
    /\ last.result = AccountTypeOnChildNode
    /\ parent[last.self] # None
    /\ parent[parent[last.self]] # None
    /\ _type[last.self] # type(last.self)
    /\ _type[parent[last.self]] # type(last.self)
    /\ last.value # type(last.self)

\* Whether account b is a itself or lies below a.
RECURSIVE IsUnder(_, _)
IsUnder(b, a) == b = a \/ (parent[b] # None /\ IsUnder(parent[b], a))

\* The legs, among the first n, that are posted in the subtree of a and dated on
\* or before D (every leg when D is None), added up with each amount multiplied
\* by the sign of its own account unless raw.
RECURSIVE RestrictedSum(_, _, _, _)
RestrictedSum(n, a, D, raw) ==
    IF n = 0 THEN 0
    ELSE RestrictedSum(n - 1, a, D, raw)
         + (IF /\ IsUnder(legs[n].account, a)
               /\ (D = None \/ transactions[legs[n].transaction].date <= D)
            THEN legs[n].amount
                   * (IF raw THEN 1
                      ELSE IF _type[RootAncestor(legs[n].account)] \in {"AS", "EX"} THEN -1
                      ELSE 1)
            ELSE 0)

C10_LegType ==
    \A i \in 1..Len(legs) :
        /\ legs[i].amount > 0 => LegType(legs[i].amount) = DEBIT
        /\ legs[i].amount < 0 => LegType(legs[i].amount) = CREDIT

\* C11: validate_accounting_equation raises AccountingEquationViolationError
\* exactly when the raw balances of the root accounts do not add up to 0, and
\* raising or not it leaves every Account, Transaction, Leg and StatementLine
\* as it was.
C11_ValidateReadOnly ==
    /\ [](last.op = "validate_accounting_equation" =>
            LET total == SetSum([r \in root_nodes |->
                                   RestrictedSum(Len(legs), r, None, TRUE)], root_nodes)
            IN  /\ last.result \in {NoError, AccountingEquationViolationError}
                /\ last.result = AccountingEquationViolationError <=> total # 0)
    /\ [][ last'.op = "validate_accounting_equation" =>
             UNCHANGED <<parent, code, _type, transactions, legs, imports, lines, lineObj>> ]_vars

C11_Witness ==
    /\ last.op = "validate_accounting_equation"
    /\ last.result = AccountingEquationViolationError
    /\ Len(legs) = 2
    /\ legs[1].account # legs[2].account
    /\ parent[legs[1].account] # None
    /\ Cardinality(root_nodes) = 2

C13_TransferRaisesBalance ==
    [][ \A f, t \in Accounts :
          (/\ last'.op = "transfer_to" /\ last'.result = NoError
           /\ last'.self = f /\ last'.to = t /\ f # t)
          => balance(t, None, FALSE)' = balance(t, None, FALSE) + last'.amount ]_vars

\* C13, amended: the displayed balance of to that rises by amount is its own
\* (simple_balance); the balance over its subtree rises by amount when from is
\* not below to, and stays as it was when from is below to.
C13_TransferRaisesOwnBalance ==
    [][ \A f, t \in Accounts :
          (/\ last'.op = "transfer_to" /\ last'.result = NoError
           /\ last'.self = f /\ last'.to = t /\ f # t)
          => /\ simple_balance(t, None, FALSE)'
                  = simple_balance(t, None, FALSE) + last'.amount
             /\ balance(t, None, FALSE)'
                  = balance(t, None, FALSE) + (IF IsUnder(f, t) THEN 0 ELSE last'.amount) ]_vars

C13_Witness ==
    /\ last.op = "transfer_to" /\ last.result = NoError
    /\ last.self # last.to
    /\ IsUnder(last.self, last.to)
    /\ parent[last.self] # last.to
    /\ sign(last.to) = -1
    /\ last.amount = 1
    /\ Len(transactions) = 2
    /\ simple_balance(last.to, None, FALSE) = 2

\* C14: creating a StatementImport or a StatementLine leaves every account's
\* balance and simple_balance, raw or displayed, at every as_of, as it was, and
\* adds no Transaction and no Leg: a line reaches the balances only through the
\* Transaction of create_transaction.
C14_StatementRowsLeaveBalances ==
    [][ last'.op \in {"StatementImport", "StatementLine"} =>
          /\ transactions' = transactions
          /\ legs' = legs
          /\ \A a \in Accounts, D \in Dates \cup {None}, raw \in BOOLEAN :
                /\ balance(a, D, raw)' = balance(a, D, raw)
                /\ simple_balance(a, D, raw)' = simple_balance(a, D, raw) ]_vars

C14_Witness ==
    /\ last.op = "StatementLine"
    /\ Len(lines) = 1
    /\ lines[1].amount # 0
    /\ lines[1].transaction = None
    /\ Len(transactions) = 2
    /\ \E a \in Accounts : balance(a, 1, FALSE) # balance(a, None, FALSE)

\* C15: create_transaction(to_account) on a line with amount a constructs exactly
\* two legs: -(a * -1), which is a, on the bank account of the line's import and
\* +(a * -1), which is -a, on to_account.
C15_LegsAsStated ==
    (last.op = "create_transaction" /\ last.result = NoError) =>
        LET a == lines[last.self].amount
            from_account == imports[lines[last.self].statement_import]
        IN  /\ TransactionLegs(last.tx) = {Len(legs) - 1, Len(legs)}
            /\ legs[Len(legs) - 1] =
                  [transaction |-> last.tx, account |-> from_account, amount |-> -(a * (-1))]
            /\ legs[Len(legs)] =
                  [transaction |-> last.tx, account |-> last.to, amount |-> a * (-1)]

\* C15, amended: the two legs are +(a * -1), which is -a, on the bank account of
\* the line's import, created first, and -(a * -1), which is a, on to_account.
C15_LegsAsCoded ==
    (last.op = "create_transaction" /\ last.result = NoError) =>
        LET a == lines[last.self].amount
            from_account == imports[lines[last.self].statement_import]
        IN  /\ TransactionLegs(last.tx) = {Len(legs) - 1, Len(legs)}
            /\ legs[Len(legs) - 1] =
                  [transaction |-> last.tx, account |-> from_account, amount |-> a * (-1)]
            /\ legs[Len(legs)] =
                  [transaction |-> last.tx, account |-> last.to, amount |-> -(a * (-1))]

C15_Witness ==
    /\ last.op = "create_transaction" /\ last.result = NoError
    /\ lines[last.self].amount = 1
    /\ imports[lines[last.self].statement_import] = last.to
    /\ Len(transactions) = 2
    /\ legs[Len(legs)].amount = 1
    /\ legs[Len(legs) - 1].amount = -1

RECURSIVE CodePath(_)
CodePath(a) == IF parent[a] = None THEN code[a] ELSE CodePath(parent[a]) \o code[a]

\* No two distinct accounts with the same parent (two roots included) share a code.
SiblingCodesUnique ==
    \A a, b \in Accounts : (a # b /\ parent[a] = parent[b]) => code[a] # code[b]

\* C17: full_code of an account is the codes on the path from its root down to
\* itself, joined; and whenever no two distinct accounts with the same parent
\* share a code, no two distinct accounts have the same full_code.
C17_FullCodeUnique ==
    /\ \A a \in Accounts : full_code(a) = CodePath(a)
    /\ last.op = "full_code" => last.value = CodePath(last.self)
    /\ SiblingCodesUnique =>
          \A a, b \in Accounts : a # b => full_code(a) # full_code(b)

\* C17, amended: full_code is the joined path of codes; and whenever no two
\* distinct accounts with the same parent share a code and all codes have one
\* length, not 0, no two distinct accounts have the same full_code.
C17_FullCodeUniqueFixedWidth ==
    /\ \A a \in Accounts : full_code(a) = CodePath(a)
    /\ last.op = "full_code" => last.value = CodePath(last.self)
    /\ (/\ SiblingCodesUnique
        /\ \A a \in Accounts : Len(code[a]) = Len(code[1]) /\ Len(code[a]) > 0)
          => \A a, b \in Accounts : a # b => full_code(a) # full_code(b)

C17_Witness ==
    /\ last.op = "full_code"
    /\ last.self = 3
    /\ parent[3] = 2 /\ parent[2] = 1
    /\ code = <<"12", "21", "12">>
    /\ last.value = "122112"

\* C18: over any sequence of create_transaction calls on one line, the line's
\* transaction reference is set at most once and at most one Transaction is
\* persisted for the line: a call succeeds only on a line whose reference is
\* unset, and a reference once set is never replaced.
C18_ReconciledOnce ==
    [][ \A i \in 1..Len(lines) :
          /\ (last'.op = "create_transaction" /\ last'.result = NoError /\ last'.self = i)
                => lines[i].transaction = None
          /\ lines[i].transaction # None => lines'[i].transaction = lines[i].transaction ]_vars

\* C19: for every account and every as_of, the displayed balance is the raw
\* balance times the account's sign, -1 for asset and expense accounts and +1
\* for the others; this holds for the balance over the subtree because every
\* descendant has the sign of its root.
C19_DisplayedIsSignedRaw ==
    \A a \in Accounts :
        LET expected == IF _type[RootAncestor(a)] \in {"AS", "EX"} THEN -1 ELSE 1
        IN  /\ sign(a) = expected
            /\ \A b \in get_descendants(a, TRUE) : sign(b) = sign(a)
            /\ \A D \in Dates \cup {None} :
                  /\ balance(a, D, FALSE) = expected * balance(a, D, TRUE)
                  /\ simple_balance(a, D, FALSE) = expected * simple_balance(a, D, TRUE)

C19_Witness ==
    \E a \in Accounts :
        /\ _type[a] = "EX"
        /\ get_descendants(a, FALSE) # {}
        /\ balance(a, 1, TRUE) = 1
        /\ balance(a, 1, FALSE) = -1
        /\ simple_balance(a, 1, TRUE) # balance(a, 1, TRUE)
        /\ balance(a, None, TRUE) # balance(a, 1, TRUE)

\* C20: net_balance(raw) over a queryset returns the sum of account.balance(raw=raw)
\* over its accounts, with no date restriction: the raw balances with raw=True,
\* the displayed balances with raw=False.
C20_NetBalance ==
    \A S \in SUBSET Accounts, raw \in BOOLEAN, lte_true \in LteTrueOutcomes :
        net_balance(S, raw, lte_true) =
            [error |-> NoError, value |-> SetSum([a \in S |-> balance(a, None, raw)], S)]

====
